---------------------------- MODULE Spec2Model ----------------------------
(***************************************************************************)
(* CT Slice Viewer + HU Histogram (HU.ipynb).                              *)
(*                                                                         *)
(* One run of the notebook cell: upload -> temporary directory -> extract  *)
(* -> walk and filter -> sort -> rescale -> stack -> display -> histogram. *)
(* Every statement of the script that changes what later statements see is *)
(* one action; a statement that raises sets exc and hands control to the   *)
(* exit of the enclosing "with tempfile.TemporaryDirectory()" block.       *)
(*                                                                         *)
(* Representation.                                                         *)
(*   - a file name, a Modality value and an InstanceNumber value are       *)
(*     sequences of one-character strings, so that lower(), upper(),       *)
(*     endswith() and int() are computed and not assumed;                  *)
(*   - a parsed dataset is a record whose DOMAIN is the set of tags the    *)
(*     file carries: an absent tag is an absent field;                     *)
(*   - a 2D pixel array is the sequence of its values in ravel() order and *)
(*     its shape is the length of that sequence;                           *)
(*   - RescaleSlope and RescaleIntercept are integers; float32 keeps 24    *)
(*     significant bits, and F32 rounds an integer to the nearest float32  *)
(*     (ties to even).                                                     *)
(***************************************************************************)
EXTENDS Integers, Sequences, FiniteSets

(***************************************************************************)
(* Bounds of the model.                                                    *)
(***************************************************************************)
\* Largest number of members of an uploaded archive.
MaxFiles == 3
\* InstanceNumbers are InstanceStride * 1 .. InstanceStride * MaxInstance, so
\* that one-digit and two-digit values both occur.
MaxInstance == 2
InstanceStride == 5

(***************************************************************************)
(* Program constants.                                                      *)
(***************************************************************************)
\* ax2.hist(volume.ravel(), bins=200, range=(-1000, 2000), ...)
HistBins == 200
HistLo == -1000
HistHi == 2000
\* getattr(s, 'RescaleSlope', 1) and getattr(s, 'RescaleIntercept', 0)
DefaultSlope == 1
DefaultIntercept == 0
\* np.float32: integers up to 2^24 in magnitude are exactly representable.
F32Exact == 16777216

(***************************************************************************)
(* Characters: str.lower(), str.upper(), str.endswith(), int().            *)
(***************************************************************************)
UpperAlphabet ==
    << "A","B","C","D","E","F","G","H","I","J","K","L","M",
       "N","O","P","Q","R","S","T","U","V","W","X","Y","Z" >>

LowerAlphabet ==
    << "a","b","c","d","e","f","g","h","i","j","k","l","m",
       "n","o","p","q","r","s","t","u","v","w","x","y","z" >>

DecimalDigits == << "0","1","2","3","4","5","6","7","8","9" >>

IndexIn(alphabet, c) ==
    IF \E k \in DOMAIN alphabet : alphabet[k] = c
        THEN CHOOSE k \in DOMAIN alphabet : alphabet[k] = c
        ELSE 0

\* str.lower()
lower(s) ==
    [k \in DOMAIN s |->
        IF IndexIn(UpperAlphabet, s[k]) # 0
            THEN LowerAlphabet[IndexIn(UpperAlphabet, s[k])]
            ELSE s[k]]

\* str.upper()
upper(s) ==
    [k \in DOMAIN s |->
        IF IndexIn(LowerAlphabet, s[k]) # 0
            THEN UpperAlphabet[IndexIn(LowerAlphabet, s[k])]
            ELSE s[k]]

\* str.endswith(suffix)
endswith(s, suffix) ==
    /\ Len(suffix) <= Len(s)
    /\ SubSeq(s, Len(s) - Len(suffix) + 1, Len(s)) = suffix

\* int() of a decimal string.
RECURSIVE int(_)
int(s) ==
    IF Len(s) = 0 THEN 0
    ELSE 10 * int(SubSeq(s, 1, Len(s) - 1))
            + (IndexIn(DecimalDigits, s[Len(s)]) - 1)

\* The decimal string of a natural number (how an archive stores the tag).
RECURSIVE DecimalString(_)
DecimalString(n) ==
    IF n < 10 THEN << DecimalDigits[n + 1] >>
    ELSE Append(DecimalString(n \div 10), DecimalDigits[(n % 10) + 1])

(***************************************************************************)
(* float32.                                                                *)
(***************************************************************************)
RECURSIVE Ulp(_)
Ulp(x) == IF x < F32Exact THEN 1 ELSE 2 * Ulp(x \div 2)

RoundNat(x) ==
    LET q  == Ulp(x)
        lo == (x \div q) * q
        r  == x - lo
    IN  IF 2 * r < q THEN lo
        ELSE IF 2 * r > q THEN lo + q
        ELSE IF (lo \div q) % 2 = 0 THEN lo ELSE lo + q

\* The float32 nearest to the integer x.
F32(x) == IF x < 0 THEN 0 - RoundNat(0 - x) ELSE RoundNat(x)


(***************************************************************************)
(* Inputs: the files an uploaded archive can hold.                         *)
(***************************************************************************)
Name_a_dcm    == << "a", ".", "d", "c", "m" >>
Name_B_DCM    == << "B", ".", "D", "C", "M" >>
Name_c_dcm    == << "c", ".", "d", "c", "m" >>
Name_r_Dcm    == << "r", ".", "D", "c", "m" >>
Name_n_dcm    == << "n", ".", "d", "c", "m" >>
Name_m_dcm    == << "m", ".", "d", "c", "m" >>
Name_x_dcm    == << "x", ".", "d", "c", "m" >>
Name_s_dcm_gz == << "s", ".", "d", "c", "m", ".", "g", "z" >>
Name_uploaded_zip ==
    << "u", "p", "l", "o", "a", "d", "e", "d", ".", "z", "i", "p" >>

InstanceNumbers ==
    { DecimalString(InstanceStride * k) : k \in 1 .. MaxInstance }

\* CT slices with every tag the script reads.  Three makes of slice:
\*   a.dcm  Modality "CT", no rescale tags, three pixels, one above 2^24;
\*   B.DCM  Modality "ct", RescaleSlope 2, RescaleIntercept -1024;
\*   c.dcm  Modality "CT", RescaleIntercept only, one pixel (another shape).
CTFiles ==
    UNION { { [name |-> Name_a_dcm, parsable |-> TRUE,
               ds |-> [Modality |-> << "C", "T" >>, InstanceNumber |-> n,
                       pixel_array |-> << 12, 1512, 16777217 >>]],
              [name |-> Name_B_DCM, parsable |-> TRUE,
               ds |-> [Modality |-> << "c", "t" >>, InstanceNumber |-> n,
                       RescaleSlope |-> 2, RescaleIntercept |-> -1024,
                       pixel_array |-> << 0, 12, 1512 >>]],
              [name |-> Name_c_dcm, parsable |-> TRUE,
               ds |-> [Modality |-> << "C", "T" >>, InstanceNumber |-> n,
                       RescaleIntercept |-> -1024,
                       pixel_array |-> << 1512 >>]] }
            : n \in InstanceNumbers }

OtherFiles ==
    { \* a CT slice with no InstanceNumber tag
      [name |-> Name_n_dcm, parsable |-> TRUE,
       ds |-> [Modality |-> << "C", "T" >>,
               pixel_array |-> << 12, 1512, 16777217 >>]],
      \* a non-CT object with no InstanceNumber tag (optional in RTSTRUCT)
      [name |-> Name_r_Dcm, parsable |-> TRUE,
       ds |-> [Modality |-> << "R", "T", "S", "T", "R", "U", "C", "T" >>]],
      \* a complete MR slice
      [name |-> Name_m_dcm, parsable |-> TRUE,
       ds |-> [Modality |-> << "M", "R" >>,
               InstanceNumber |-> DecimalString(InstanceStride),
               pixel_array |-> << 7, 7, 7 >>]],
      \* a dataset with no Modality tag
      [name |-> Name_x_dcm, parsable |-> TRUE,
       ds |-> [InstanceNumber |-> DecimalString(InstanceStride),
               pixel_array |-> << 12, 1512, 16777217 >>]],
      \* a .dcm file that is not DICOM
      [name |-> Name_x_dcm, parsable |-> FALSE,
       ds |-> [Garbage |-> TRUE]],
      \* a CT slice under a name that does not end in .dcm
      [name |-> Name_s_dcm_gz, parsable |-> TRUE,
       ds |-> [Modality |-> << "C", "T" >>,
               InstanceNumber |-> DecimalString(InstanceStride),
               pixel_array |-> << 0, 12, 1512 >>]] }

FileKinds == CTFiles \cup OtherFiles

\* The member lists of an archive, in the order os.walk will yield them.
MemberLists == UNION { [1 .. n -> FileKinds] : n \in 0 .. MaxFiles }

\* st.file_uploader returns None until a file is given.
NoUpload == [given |-> FALSE, valid |-> FALSE, members |-> << >>]

Uploads ==
    { [given |-> TRUE, valid |-> TRUE, members |-> m] : m \in MemberLists }
        \cup { [given |-> TRUE, valid |-> FALSE, members |-> << >>] }

\* zip_path: the archive itself is a file of the walked directory.
ZipFileEntry ==
    [name |-> Name_uploaded_zip, parsable |-> FALSE, ds |-> [Garbage |-> TRUE]]

(***************************************************************************)
(* State.                                                                  *)
(***************************************************************************)
VARIABLES
    pc,             \* position in the script
    uploaded_file,  \* what st.file_uploader returned
    tmpdir,         \* "none" | "exists" | "removed"
    tree,           \* files under tmpdirname, in os.walk order
    walked,         \* number of files of tree the walk has visited
    ct_slices,      \* datasets kept; sorted once pc is past "branch"
    pixel_arrays,   \* HU slices computed so far
    volume,         \* np.stack(pixel_arrays); << >> until stacked
    mid_slice_idx,  \* volume.shape[0] // 2; -1 until computed
    out,            \* what the session has been shown, in order
    image,          \* the slice given to imshow; << >> until shown
    hist,           \* bin counts of ax2.hist; << >> until plotted
    exc             \* the exception propagating, or "none"

vars == << pc, uploaded_file, tmpdir, tree, walked, ct_slices, pixel_arrays,
           volume, mid_slice_idx, out, image, hist, exc >>

Init ==
    /\ pc = "file_uploader"
    /\ uploaded_file = NoUpload
    /\ tmpdir = "none"
    /\ tree = << >>
    /\ walked = 0
    /\ ct_slices = << >>
    /\ pixel_arrays = << >>
    /\ volume = << >>
    /\ mid_slice_idx = -1
    /\ out = << >>
    /\ image = << >>
    /\ hist = << >>
    /\ exc = "none"

\* A statement inside the with block raises: nothing else of the block runs.
Raise(e) ==
    /\ pc' = "exit"
    /\ exc' = e

(***************************************************************************)
(* The pure steps of the script.                                           *)
(***************************************************************************)
\* Mutant: the suffix test without lower().
IsDcmNameCaseSensitive(filename) ==
    endswith(filename, << ".", "d", "c", "m" >>)

\* filename.lower().endswith('.dcm')
IsDcmName(filename) == endswith(lower(filename), << ".", "d", "c", "m" >>)

\* Mutant: every parsed dataset is kept, whatever its Modality.
IsCTAnyModality(ds) == Len(ds.Modality) >= 0

\* ds.Modality.upper() == 'CT'
IsCT(ds) == upper(ds.Modality) = << "C", "T" >>

\* key=lambda x: int(x.InstanceNumber)
SortKey(x) == int(x.InstanceNumber)

\* One insertion of sorted(): x goes after every element whose key is not
\* greater than its own, so equal keys keep their order.
RECURSIVE InsertByKey(_, _)
InsertByKey(s, x) ==
    IF Len(s) = 0 THEN << x >>
    ELSE IF SortKey(s[Len(s)]) <= SortKey(x) THEN Append(s, x)
    ELSE Append(InsertByKey(SubSeq(s, 1, Len(s) - 1), x), s[Len(s)])

\* Mutant: the sorted list is not assigned back.
sortedDiscarded(s) == s

\* Mutant: an unstable sort, which puts a record before those of equal key.
RECURSIVE InsertBeforeEqual(_, _)
InsertBeforeEqual(s, x) ==
    IF Len(s) = 0 THEN << x >>
    ELSE IF SortKey(s[Len(s)]) < SortKey(x) THEN Append(s, x)
    ELSE Append(InsertBeforeEqual(SubSeq(s, 1, Len(s) - 1), x), s[Len(s)])

RECURSIVE sortedUnstable(_)
sortedUnstable(s) ==
    IF Len(s) = 0 THEN << >>
    ELSE InsertBeforeEqual(sortedUnstable(SubSeq(s, 1, Len(s) - 1)),
                           s[Len(s)])

\* sorted(ct_slices, key=lambda x: int(x.InstanceNumber))
RECURSIVE sorted(_)
sorted(s) ==
    IF Len(s) = 0 THEN << >>
    ELSE InsertByKey(sorted(SubSeq(s, 1, Len(s) - 1)), s[Len(s)])

\* getattr(s, 'RescaleSlope', 1)
Slope(s) ==
    IF "RescaleSlope" \in DOMAIN s THEN s.RescaleSlope ELSE DefaultSlope

\* getattr(s, 'RescaleIntercept', 0)
Intercept(s) ==
    IF "RescaleIntercept" \in DOMAIN s
        THEN s.RescaleIntercept ELSE DefaultIntercept

\* Mutant: the intercept is added before the slope is applied.
HuSliceInterceptFirst(s) ==
    [k \in DOMAIN s.pixel_array |->
        F32(F32(F32(s.pixel_array[k]) + Intercept(s)) * Slope(s))]

\* s.pixel_array.astype(np.float32) * slope + intercept, each operation in
\* float32.
HuSlice(s) ==
    [k \in DOMAIN s.pixel_array |->
        F32(F32(F32(s.pixel_array[k]) * Slope(s)) + Intercept(s))]

\* Mutant: arrays of any shapes are stacked.
SameShapesUnchecked(arrays) == Len(arrays) >= 0

\* np.stack needs every array to have the shape of the first.
SameShapes(arrays) ==
    \A k \in DOMAIN arrays : Len(arrays[k]) = Len(arrays[1])

\* Mutant: half of the last index instead of half of the length.
MidSliceIdxOfLastIndex(n) == (n - 1) \div 2

\* volume.shape[0] // 2
MidSliceIdx(n) == n \div 2

\* volume.ravel()
RECURSIVE ravel(_)
ravel(v) ==
    IF Len(v) = 0 THEN << >>
    ELSE ravel(SubSeq(v, 1, Len(v) - 1)) \o v[Len(v)]

\* Mutant: the range is taken half-open.
InHistRangeHalfOpen(a) == HistLo <= a /\ a < HistHi

\* np.histogram keeps the values with first_edge <= a <= last_edge.
InHistRange(a) == HistLo <= a /\ a <= HistHi

\* The bin of a kept value: floor((a - lo) * bins / (hi - lo)), and the
\* value equal to the last edge goes to the last bin.
BinOf(a) ==
    IF a = HistHi THEN HistBins - 1
    ELSE ((a - HistLo) * HistBins) \div (HistHi - HistLo)

\* ax2.hist(a, bins=200, range=(-1000, 2000)): the counts, bin 1 first.
Histogram(a) ==
    [b \in 1 .. HistBins |->
        Cardinality({ k \in DOMAIN a :
                        InHistRange(a[k]) /\ BinOf(a[k]) = b - 1 })]

\* Mutant: the directory is removed only when the block ends normally.
TempDirKeptOnError(e) == IF e = "none" THEN "removed" ELSE "exists"

\* TemporaryDirectory.__exit__(exc, ...): the directory is removed whether
\* or not an exception is propagating.
TempDirAfterExit(e) == "removed"

(***************************************************************************)
(* The script, statement by statement.                                     *)
(***************************************************************************)
\* uploaded_file = st.file_uploader(...); if uploaded_file:
FileUploader ==
    /\ pc = "file_uploader"
    /\ \E u \in Uploads \cup { NoUpload } :
          /\ uploaded_file' = u
          /\ pc' = IF u.given THEN "mkdtemp" ELSE "done"
    /\ UNCHANGED << tmpdir, tree, walked, ct_slices, pixel_arrays, volume,
                    mid_slice_idx, out, image, hist, exc >>

\* with tempfile.TemporaryDirectory() as tmpdirname:
EnterTempDir ==
    /\ pc = "mkdtemp"
    /\ tmpdir' = "exists"
    /\ pc' = "save"
    /\ UNCHANGED << uploaded_file, tree, walked, ct_slices, pixel_arrays,
                    volume, mid_slice_idx, out, image, hist, exc >>

\* with open(zip_path, "wb") as f: f.write(uploaded_file.getbuffer())
SaveZip ==
    /\ pc = "save"
    /\ tree' = << ZipFileEntry >>
    /\ pc' = "extract"
    /\ UNCHANGED << uploaded_file, tmpdir, walked, ct_slices, pixel_arrays,
                    volume, mid_slice_idx, out, image, hist, exc >>

\* with zipfile.ZipFile(zip_path, 'r') as zip_ref: zip_ref.extractall(...)
ExtractZip ==
    /\ pc = "extract"
    /\ IF uploaded_file.valid
          THEN /\ tree' = tree \o uploaded_file.members
               /\ pc' = "walk"
               /\ exc' = exc
          ELSE /\ Raise("BadZipFile")
               /\ tree' = tree
    /\ UNCHANGED << uploaded_file, tmpdir, walked, ct_slices, pixel_arrays,
                    volume, mid_slice_idx, out, image, hist >>

\* One iteration of "for filename in files" (ct_slices = [] was the state
\* the run began in); after the last file the walk ends.
WalkFile ==
    /\ pc = "walk"
    /\ walked < Len(tree)
    /\ LET f == tree[walked + 1]
           next == IF walked + 1 = Len(tree) THEN "branch" ELSE "walk"
       IN  IF ~ IsDcmName(f.name)
              THEN /\ pc' = next /\ exc' = exc
                   /\ ct_slices' = ct_slices
           ELSE IF ~ f.parsable
              THEN /\ Raise("InvalidDicomError")
                   /\ ct_slices' = ct_slices
           ELSE IF "Modality" \notin DOMAIN f.ds
              THEN /\ Raise("AttributeError")
                   /\ ct_slices' = ct_slices
           ELSE /\ pc' = next /\ exc' = exc
                /\ ct_slices' =
                      IF IsCT(f.ds) THEN Append(ct_slices, f.ds)
                      ELSE ct_slices
    /\ walked' = walked + 1
    /\ UNCHANGED << uploaded_file, tmpdir, tree, pixel_arrays, volume,
                    mid_slice_idx, out, image, hist >>

\* if len(ct_slices) == 0: st.error("No CT DICOM slices found in uploaded ZIP.")
ReportNoCT ==
    /\ pc = "branch"
    /\ Len(ct_slices) = 0
    /\ out' = Append(out, "error: No CT DICOM slices found in uploaded ZIP.")
    /\ pc' = "exit"
    /\ UNCHANGED << uploaded_file, tmpdir, tree, walked, ct_slices,
                    pixel_arrays, volume, mid_slice_idx, image, hist, exc >>

\* else: ct_slices = sorted(ct_slices, key=lambda x: int(x.InstanceNumber))
SortSlices ==
    /\ pc = "branch"
    /\ Len(ct_slices) # 0
    /\ IF \A k \in DOMAIN ct_slices : "InstanceNumber" \in DOMAIN ct_slices[k]
          THEN /\ ct_slices' = sorted(ct_slices)
               /\ pc' = "convert"
               /\ exc' = exc
          ELSE /\ Raise("AttributeError")
               /\ ct_slices' = ct_slices
    /\ UNCHANGED << uploaded_file, tmpdir, tree, walked, pixel_arrays, volume,
                    mid_slice_idx, out, image, hist >>

\* Mutant: each slice is drawn as soon as it is rescaled.
ConvertSliceWithPreview ==
    /\ pc = "convert"
    /\ Len(pixel_arrays) < Len(ct_slices)
    /\ pixel_arrays' =
          Append(pixel_arrays, HuSlice(ct_slices[Len(pixel_arrays) + 1]))
    /\ out' = Append(out, "pyplot: slice")
    /\ pc' = IF Len(pixel_arrays) + 1 = Len(ct_slices)
                THEN "stack" ELSE "convert"
    /\ UNCHANGED << uploaded_file, tmpdir, tree, walked, ct_slices, volume,
                    mid_slice_idx, image, hist, exc >>

\* One iteration of "for s in ct_slices": pixel_arrays.append(hu_slice).
ConvertSlice ==
    /\ pc = "convert"
    /\ Len(pixel_arrays) < Len(ct_slices)
    /\ pixel_arrays' =
          Append(pixel_arrays, HuSlice(ct_slices[Len(pixel_arrays) + 1]))
    /\ pc' = IF Len(pixel_arrays) + 1 = Len(ct_slices)
                THEN "stack" ELSE "convert"
    /\ UNCHANGED << uploaded_file, tmpdir, tree, walked, ct_slices, volume,
                    mid_slice_idx, out, image, hist, exc >>

\* volume = np.stack(pixel_arrays)
StackVolume ==
    /\ pc = "stack"
    /\ IF SameShapes(pixel_arrays)
          THEN /\ volume' = pixel_arrays
               /\ pc' = "write"
               /\ exc' = exc
          ELSE /\ Raise("ValueError")
               /\ volume' = volume
    /\ UNCHANGED << uploaded_file, tmpdir, tree, walked, ct_slices,
                    pixel_arrays, mid_slice_idx, out, image, hist >>

\* mid_slice_idx = volume.shape[0] // 2
\* st.write(f"Displaying middle slice #{mid_slice_idx}")
WriteMiddle ==
    /\ pc = "write"
    /\ mid_slice_idx' = MidSliceIdx(Len(volume))
    /\ out' = Append(out, "write: Displaying middle slice")
    /\ pc' = "imshow"
    /\ UNCHANGED << uploaded_file, tmpdir, tree, walked, ct_slices,
                    pixel_arrays, volume, image, hist, exc >>

\* ax1.imshow(volume[mid_slice_idx], ...); st.pyplot(fig1)
\* (Python indexes from 0, a sequence from 1.)
ShowSlice ==
    /\ pc = "imshow"
    /\ image' = volume[mid_slice_idx + 1]
    /\ out' = Append(out, "pyplot: slice")
    /\ pc' = "hist"
    /\ UNCHANGED << uploaded_file, tmpdir, tree, walked, ct_slices,
                    pixel_arrays, volume, mid_slice_idx, hist, exc >>

\* ax2.hist(volume.ravel(), bins=200, range=(-1000, 2000)); st.pyplot(fig2)
ShowHistogram ==
    /\ pc = "hist"
    /\ hist' = Histogram(ravel(volume))
    /\ out' = Append(out, "pyplot: histogram")
    /\ pc' = "exit"
    /\ UNCHANGED << uploaded_file, tmpdir, tree, walked, ct_slices,
                    pixel_arrays, volume, mid_slice_idx, image, exc >>

\* The end of the with block, reached by falling off its end or by an
\* exception passing through it.
ExitTempDir ==
    /\ pc = "exit"
    /\ tmpdir' = TempDirAfterExit(exc)
    /\ pc' = IF exc = "none" THEN "done" ELSE "faulted"
    /\ UNCHANGED << uploaded_file, tree, walked, ct_slices, pixel_arrays,
                    volume, mid_slice_idx, out, image, hist, exc >>

Next ==
    \/ FileUploader
    \/ EnterTempDir
    \/ SaveZip
    \/ ExtractZip
    \/ WalkFile
    \/ ReportNoCT
    \/ SortSlices
    \/ ConvertSlice
    \/ StackVolume
    \/ WriteMiddle
    \/ ShowSlice
    \/ ShowHistogram
    \/ ExitTempDir

Spec == Init /\ [][Next]_vars

(***************************************************************************)
(* What the claims speak of, stated from the uploaded files and not from   *)
(* the operators of the script.                                            *)
(***************************************************************************)
\* The name ends in ".dcm" in any mix of cases.
EndsInDcmAnyCase(name) ==
    /\ Len(name) >= 4
    /\ name[Len(name) - 3] = "."
    /\ name[Len(name) - 2] \in { "d", "D" }
    /\ name[Len(name) - 1] \in { "c", "C" }
    /\ name[Len(name)] \in { "m", "M" }

\* The Modality tag spells CT in any mix of cases.
ModalityReadsCT(ds) ==
    /\ "Modality" \in DOMAIN ds
    /\ ds.Modality \in { << "C", "T" >>, << "c", "t" >>,
                         << "C", "t" >>, << "c", "T" >> }

IsCTDicomFile(f) ==
    EndsInDcmAnyCase(f.name) /\ f.parsable /\ ModalityReadsCT(f.ds)

\* The datasets that should be kept, in discovery order.
ExpectedKept ==
    LET sel == SelectSeq(tree, IsCTDicomFile)
    IN  [k \in DOMAIN sel |-> sel[k].ds]

\* The number an InstanceNumber tag stands for.
NumberOf(ds) == int(ds.InstanceNumber)

Occurrences(s, x) == Cardinality({ k \in DOMAIN s : s[k] = x })

\* s and t hold the same elements the same number of times.
SameBag(s, t) ==
    /\ Len(s) = Len(t)
    /\ \A k \in DOMAIN s : Occurrences(s, s[k]) = Occurrences(t, s[k])

\* s[lo] + ... + s[hi], by halves.
RECURSIVE SumRange(_, _, _)
SumRange(s, lo, hi) ==
    IF lo > hi THEN 0
    ELSE IF lo = hi THEN s[lo]
    ELSE LET half == (lo + hi) \div 2
         IN  SumRange(s, lo, half) + SumRange(s, half + 1, hi)

SumSeq(s) == SumRange(s, 1, Len(s))

\* The (slice, pixel) positions of a stack of slices.
Voxels(v) == { << k, j >> : k \in DOMAIN v, j \in 1 .. Len(v[1]) }

Emitted(line) == \E k \in DOMAIN out : out[k] = line

NoCTMessage == "error: No CT DICOM slices found in uploaded ZIP."

Visualized ==
    \/ Emitted("write: Displaying middle slice")
    \/ Emitted("pyplot: slice")
    \/ Emitted("pyplot: histogram")

RunEnded == pc \in { "done", "faulted" }

\* Causes of a fault, read off the uploaded archive.
BadZip == uploaded_file.given /\ ~ uploaded_file.valid

HasUnparsableDcm ==
    \E k \in DOMAIN uploaded_file.members :
        LET f == uploaded_file.members[k]
        IN  EndsInDcmAnyCase(f.name) /\ ~ f.parsable

HasDcmWithoutModality ==
    \E k \in DOMAIN uploaded_file.members :
        LET f == uploaded_file.members[k]
        IN  /\ EndsInDcmAnyCase(f.name) /\ f.parsable
            /\ "Modality" \notin DOMAIN f.ds

HasDcmWithoutInstanceNumber ==
    \E k \in DOMAIN uploaded_file.members :
        LET f == uploaded_file.members[k]
        IN  /\ EndsInDcmAnyCase(f.name) /\ f.parsable
            /\ "InstanceNumber" \notin DOMAIN f.ds

HasCTWithoutInstanceNumber ==
    \E k \in DOMAIN uploaded_file.members :
        LET f == uploaded_file.members[k]
        IN  IsCTDicomFile(f) /\ "InstanceNumber" \notin DOMAIN f.ds

HasCTShapeMismatch ==
    \E k, l \in DOMAIN uploaded_file.members :
        LET f == uploaded_file.members[k]
            g == uploaded_file.members[l]
        IN  /\ IsCTDicomFile(f) /\ IsCTDicomFile(g)
            /\ Len(f.ds.pixel_array) # Len(g.ds.pixel_array)

(***************************************************************************)
(* Claims.                                                                 *)
(***************************************************************************)
\* C1: once the volume is assembled, its slices are the kept CT records,
\* each exactly once, one HU slice per record in the same position, with
\* the InstanceNumber never decreasing along the first axis, whatever the
\* discovery order was.
C1_VolumeIsKeptSlicesInInstanceOrder ==
    volume # << >> =>
        LET kept == ExpectedKept
        IN  /\ SameBag(ct_slices, kept)
            /\ Len(volume) = Len(kept)
            /\ \A k \in DOMAIN volume : volume[k] = HuSlice(ct_slices[k])
            /\ \A k \in 1 .. Len(volume) - 1 :
                  NumberOf(ct_slices[k]) <= NumberOf(ct_slices[k + 1])

\* A finished run whose three slices were discovered out of order.
C1_Witness ==
    /\ pc = "done"
    /\ Len(volume) = 3
    /\ ct_slices # ExpectedKept

\* The archive is valid and every .dcm file in it parses and carries a
\* Modality that is not CT (there may be no .dcm file at all).
OnlyNonCT ==
    /\ uploaded_file.given
    /\ uploaded_file.valid
    /\ \A k \in DOMAIN uploaded_file.members :
          LET f == uploaded_file.members[k]
          IN  EndsInDcmAnyCase(f.name) =>
                /\ f.parsable
                /\ "Modality" \in DOMAIN f.ds
                /\ ~ ModalityReadsCT(f.ds)

\* C2: a valid archive with no CT among its .dcm files ends with the
\* "No CT DICOM slices found" error as its only output; no sort, rescale or
\* stack step runs, nothing is drawn, and the run does not fault.
C2_OnlyNonCTReportsErrorAndRendersNothing ==
    LET nothingButTheError ==
            /\ pc \notin { "convert", "stack", "write", "imshow", "hist",
                           "faulted" }
            /\ exc = "none"
            /\ ct_slices = << >>
            /\ pixel_arrays = << >>
            /\ volume = << >>
            /\ image = << >>
            /\ hist = << >>
            /\ ~ Visualized
            /\ pc = "done" /\ uploaded_file.given => out = << NoCTMessage >>
    IN  ~ nothingButTheError => ~ OnlyNonCT

\* A finished run over an archive that holds a non-CT .dcm file.
C2_Witness ==
    /\ OnlyNonCT
    /\ pc = "done"
    /\ \E k \in DOMAIN uploaded_file.members :
          EndsInDcmAnyCase(uploaded_file.members[k].name)
    /\ out = << NoCTMessage >>

\* C3: the records kept by the walk are exactly the files whose name ends
\* in .dcm (any case) and whose Modality reads CT (any case), and the
\* volume, the displayed slice and the histogram are made of those records
\* only.  (The counts are examined when the histogram has just been plotted.)
C3_ExactlyTheCTDicomFilesContribute ==
    /\ pc = "branch" => ct_slices = ExpectedKept
    /\ volume # << >> =>
          LET kept == ExpectedKept
              hu == [k \in DOMAIN kept |-> HuSlice(kept[k])]
          IN  /\ SameBag(volume, hu)
              /\ image # << >> => \E k \in DOMAIN hu : image = hu[k]
              /\ pc = "exit" /\ hist # << >> =>
                    SumSeq(hist) =
                        Cardinality(
                            { p \in Voxels(hu) :
                                /\ -1000 <= hu[p[1]][p[2]]
                                /\ hu[p[1]][p[2]] <= 2000 })
    /\ volume = << >> => image = << >> /\ hist = << >>

\* A finished run over a mix of CT slices (lower- and upper-case names) and
\* files that must not contribute.
C3_Witness ==
    /\ pc = "done"
    /\ hist # << >>
    /\ Len(ExpectedKept) < Len(uploaded_file.members)
    /\ \E k \in DOMAIN uploaded_file.members :
          /\ uploaded_file.members[k].name = Name_B_DCM
    /\ \E k \in DOMAIN uploaded_file.members :
          /\ uploaded_file.members[k].parsable
          /\ "Modality" \in DOMAIN uploaded_file.members[k].ds
          /\ ~ ModalityReadsCT(uploaded_file.members[k].ds)

\* The rescale tags of a dataset as the claims state them.
TagSlope(ds) == IF "RescaleSlope" \in DOMAIN ds THEN ds.RescaleSlope ELSE 1

TagIntercept(ds) ==
    IF "RescaleIntercept" \in DOMAIN ds THEN ds.RescaleIntercept ELSE 0

Magnitude(x) == IF x < 0 THEN 0 - x ELSE x

\* P, P*S and P*S + I are all exactly representable in float32.
ExactInFloat32(p, sl, ic) ==
    /\ Magnitude(p) <= 16777216
    /\ Magnitude(p * sl) <= 16777216
    /\ Magnitude(p * sl + ic) <= 16777216

C5_MiddleSliceIsFloorHalf ==
    /\ mid_slice_idx # -1 =>
          LET n == Len(volume)
          IN  /\ n >= 1
              /\ 2 * mid_slice_idx <= n
              /\ n < 2 * mid_slice_idx + 2
              /\ 0 <= mid_slice_idx
              /\ mid_slice_idx <= n - 1
    /\ image # << >> =>
          LET kept == ExpectedKept
              r == NumberOf(ct_slices[mid_slice_idx + 1])
              num == [k \in DOMAIN kept |-> NumberOf(kept[k])]
              before == { k \in DOMAIN kept : num[k] < r }
              upTo   == { k \in DOMAIN kept : num[k] <= r }
          IN  /\ image = HuSlice(ct_slices[mid_slice_idx + 1])
              /\ image = volume[mid_slice_idx + 1]
              /\ Cardinality(before) <= mid_slice_idx
              /\ mid_slice_idx < Cardinality(upTo)

\* Three slices whose first two were discovered in descending InstanceNumber
\* order: index 1 is shown, and the slice there is not the one discovered
\* second.
C5_Witness ==
    /\ image # << >>
    /\ Len(volume) = 3
    /\ mid_slice_idx = 1
    /\ NumberOf(ExpectedKept[1]) > NumberOf(ExpectedKept[2])
    /\ ExpectedKept[2] # ct_slices[2]

\* C6: a run that created the temporary directory never ends with it still
\* existing, whether it ended normally or by a fault; and the directory
\* exists only while the run is inside the with block.
C6_TempDirReleasedOnEveryExit ==
    /\ RunEnded /\ uploaded_file.given => tmpdir = "removed"
    /\ RunEnded => tmpdir # "exists"

\* A run that faulted while stacking, after the directory was filled.
C6_Witness ==
    /\ pc = "faulted"
    /\ exc = "ValueError"
    /\ Len(tree) > 1
    /\ tmpdir = "removed"

\* C7: whenever any of the three visualization outputs has been emitted,
\* every kept slice has been rescaled and the whole volume stacked, and no
\* fault has occurred; a faulting run has emitted none of them.
C7_NoPartialResults ==
    /\ (Visualized \/ image # << >> \/ hist # << >>) =>
          /\ exc = "none"
          /\ volume # << >>
          /\ Len(pixel_arrays) = Len(ct_slices)
          /\ volume = pixel_arrays
          /\ Len(volume) = Len(ExpectedKept)
    /\ exc # "none" =>
          ~ Visualized /\ image = << >> /\ hist = << >> /\ volume = << >>

\* A run that rescaled two slices and then faulted in np.stack.
C7_Witness ==
    /\ pc = "faulted"
    /\ exc = "ValueError"
    /\ Len(pixel_arrays) >= 2
    /\ out = << >>

\* C8 as stated: a run whose archive is invalid, or holds an unparsable
\* .dcm file, a .dcm record without Modality or without InstanceNumber, or
\* CT slices of differing shape, ends in a fault with no output at all.
C8_Original_EveryListedDefectFaults ==
    ( /\ RunEnded
      /\ \/ BadZip
         \/ HasUnparsableDcm
         \/ HasDcmWithoutModality
         \/ HasDcmWithoutInstanceNumber
         \/ HasCTShapeMismatch )
    => ( pc = "faulted" /\ out = << >> )

\* C8 (amended): a run whose archive is invalid, or holds an unparsable
\* .dcm file, a .dcm record without Modality, a CT record without
\* InstanceNumber, or CT slices of differing shape, ends in a fault with
\* neither the "No CT" message nor any visualization, even when valid CT
\* slices are present; a faulting run never shows the "No CT" message, and
\* a non-CT record without InstanceNumber is no fault.
C8_OnlyNoCTIsHandled ==
    /\ ( /\ RunEnded
         /\ \/ BadZip
            \/ HasUnparsableDcm
            \/ HasDcmWithoutModality
            \/ HasCTWithoutInstanceNumber
            \/ HasCTShapeMismatch )
       => ( /\ pc = "faulted"
            /\ exc # "none"
            /\ out = << >>
            /\ image = << >>
            /\ hist = << >> )
    /\ Emitted(NoCTMessage) => exc = "none" /\ pc # "faulted"
    /\ ( /\ RunEnded
         /\ OnlyNonCT
         /\ HasDcmWithoutInstanceNumber )
       => ( pc = "done" /\ out = << NoCTMessage >> )

\* A faulted run whose archive held a complete CT slice beside the one
\* defective file.
C8_Witness ==
    /\ pc = "faulted"
    /\ out = << >>
    /\ \E k \in DOMAIN uploaded_file.members :
          LET f == uploaded_file.members[k]
          IN  IsCTDicomFile(f) /\ "InstanceNumber" \in DOMAIN f.ds
    /\ \/ HasUnparsableDcm
       \/ HasDcmWithoutModality
       \/ HasCTWithoutInstanceNumber

\* The value a lies in bin b (1 .. 200) of 200 equal bins over
\* [-1000, 2000]: each bin is 3000 / 200 = 15 wide and closed on the left,
\* and the last one is closed on the right as well.
InBin(a, b) ==
    /\ -1000 + 15 * (b - 1) <= a
    /\ \/ a < -1000 + 15 * b
       \/ b = 200 /\ a = 2000

\* C9: the histogram has exactly 200 bins of equal width over [-1000, 2000];
\* the count of a bin is the number of voxels of the whole volume inside it,
\* so a voxel in the range is counted once, a voxel outside it never, and
\* the counts sum to the number of voxels in the range; plotting never
\* faults.  (The counts are examined when the histogram has just been
\* plotted; hist does not change afterwards.)
C9_HistogramCountsInRangeVoxelsOnce ==
    /\ pc = "exit" /\ hist # << >> =>
          LET vox == Voxels(volume)
              hu == [p \in vox |-> volume[p[1]][p[2]]]
          IN  /\ DOMAIN hist = 1 .. 200
              /\ \A b \in 1 .. 200 :
                    hist[b] = Cardinality({ p \in vox : InBin(hu[p], b) })
              /\ \A a \in { hu[p] : p \in vox } :
                    Cardinality({ b \in 1 .. 200 : InBin(a, b) }) =
                        IF -1000 <= a /\ a <= 2000 THEN 1 ELSE 0
              /\ SumSeq(hist) =
                    Cardinality({ p \in vox :
                                    -1000 <= hu[p] /\ hu[p] <= 2000 })
              /\ exc = "none"
    /\ pc = "done" /\ volume # << >> => hist # << >>

\* A histogram of two slices holding voxels below, above and on both ends
\* of the range.
C9_Witness ==
    /\ hist # << >>
    /\ Len(volume) >= 2
    /\ \E p \in Voxels(volume) : volume[p[1]][p[2]] < -1000
    /\ \E p \in Voxels(volume) : volume[p[1]][p[2]] > 2000
    /\ \E p \in Voxels(volume) : volume[p[1]][p[2]] = -1000
    /\ \E p \in Voxels(volume) : volume[p[1]][p[2]] = 2000
    /\ hist[1] >= 1
    /\ hist[200] >= 1

\* The position sorted() must give the record discovered i-th, num being
\* the InstanceNumbers in discovery order: after every record with a
\* smaller InstanceNumber and after the records with an equal one that were
\* discovered earlier.
StableRank(num, i) ==
    Cardinality({ j \in DOMAIN num :
                    \/ num[j] < num[i]
                    \/ num[j] = num[i] /\ j <= i })

\* C10: after the sort every kept record stands at its stable rank, so
\* records with equal InstanceNumber keep their discovery order; and an
\* archive of complete, equally shaped CT slices is displayed with every
\* record in the volume, however its InstanceNumbers repeat or skip.
C10_SortIsStableAndKeepsDuplicates ==
    /\ (pc \in { "convert", "stack", "write", "imshow", "hist" }
            \/ volume # << >>) =>
          LET kept == ExpectedKept
              num == [k \in DOMAIN kept |-> NumberOf(kept[k])]
          IN  /\ Len(ct_slices) = Len(kept)
              /\ \A i \in DOMAIN kept :
                    ct_slices[StableRank(num, i)] = kept[i]
    /\ ( /\ RunEnded
         /\ exc # "BadZipFile"
         /\ uploaded_file.given
         /\ ~ HasUnparsableDcm
         /\ ~ HasDcmWithoutModality
         /\ ~ HasCTWithoutInstanceNumber
         /\ ~ HasCTShapeMismatch
         /\ Len(ExpectedKept) > 0 )
       => ( pc = "done" /\ Len(volume) = Len(ExpectedKept) )

\* A finished run in which two different records share an InstanceNumber
\* and a record with a larger one was discovered before them.
C10_Witness ==
    /\ pc = "done"
    /\ Len(volume) = 3
    /\ NumberOf(ExpectedKept[1]) > NumberOf(ExpectedKept[2])
    /\ NumberOf(ExpectedKept[2]) = NumberOf(ExpectedKept[3])
    /\ ExpectedKept[2] # ExpectedKept[3]
    /\ ct_slices = << ExpectedKept[2], ExpectedKept[3], ExpectedKept[1] >>

=============================================================================
